---- MODULE Spec2Model ----
(***************************************************************************)
(* A model of streamlit_app.py, the transcript chat application.           *)
(*                                                                         *)
(* Streamlit re-executes the whole script on every user interaction; one   *)
(* such execution is a "cycle" and is one step of the action Cycle.  Two   *)
(* pieces of state survive between cycles: st.session_state (per browser   *)
(* session) and the store behind @st.cache_resource (per process).         *)
(*                                                                         *)
(* A run is followed to its st.stop(), its st.rerun() or its last line.   *)
(* A browser session is followed by the next one (NewSession), which       *)
(* starts from an empty st.session_state in the same process.              *)
(*                                                                         *)
(* Text is modelled as a sequence of tokens.  The tokens are the pieces    *)
(* the f-string of line 79 is made of, the file names, and letters of file *)
(* content.  No token is a prefix of another one, so two token sequences   *)
(* are equal exactly when the strings they stand for are equal.            *)
(***************************************************************************)
EXTENDS Integers, Sequences, FiniteSets, TLC

VARIABLES
    env,            \* os.getenv("AI_STUDIO_API_KEY"), fixed for the process
    hashSeed,       \* the per-process seed of Python's str hash
    memo,           \* the store of @st.cache_resource: texts with a cache
    issued,         \* texts for which a remote create call was ever issued
    session_state,  \* st.session_state of the live session (key -> value)
    widgets,        \* widgets the last run of the script rendered
    lastUploads,    \* uploads of the last cycle that computed a fingerprint
    origins,        \* for each message of the history, the combined text of
                    \* the cycle that appended it
    turns,          \* turns started and turns succeeded since the last reset
    cycle           \* what the most recent cycle did (its inputs and trace)

vars == <<env, hashSeed, memo, issued, session_state, widgets, lastUploads,
          origins, turns, cycle>>

----------------------------------------------------------------------------
(* Bounds of the model *)

\* a prompt is accepted only while the history has room for a whole turn
MaxHistory == 3

\* width of the modelled string hash (Python's is 2^64); like Python's on the
\* texts a run meets, it keeps the modelled texts apart
HashMod == 9

----------------------------------------------------------------------------
(* Values *)

\* Python's None, where a string is expected
None == "<None>"

\* the two halves of the header f"\n\n--- SOURCE: {name} ---\n\n" (line 79)
Pre == "\n\n--- SOURCE: "
Post == " ---\n\n"

Truthy(v) == v \notin {None, ""}

\* uploaded files: name and decoded content
File(n, c) == [name |-> n, content |-> c]

FileA == File("a.txt", <<"x">>)
FileB == File("b.txt", <<"y">>)
\* a.txt whose content holds the text of a source header
FileAB == File("a.txt", <<"x", Pre, "b.txt", Post, "y">>)

\* the values the file uploader can hold
UploadSets ==
    { <<>>, <<FileA>>, <<FileA, FileB>>, <<FileB, FileA>>, <<FileAB>> }

\* the values of the process environment variable
EnvValues == {None, "envkey"}

\* what the user can have typed into the key field
KeyInputs == {"", "userkey"}

\* what st.chat_input can return
Prompts == {"p", "q"}

\* seeds of the string hash (Python draws one when the process starts)
HashSeeds == {2}

Response(t, u) == [text |-> t, usage_metadata |-> u]

\* the responses chat.send_message can return; usage_metadata is empty (falsy),
\* or holds counts with or without the cached_content_token_count attribute
Responses ==
    { Response("r0", <<>>),
      Response("r1", <<[prompt_token_count |-> 3, candidates_token_count |-> 2,
                        total_token_count |-> 5]>>),
      Response("r2", <<[prompt_token_count |-> 3, candidates_token_count |-> 2,
                        total_token_count |-> 5,
                        cached_content_token_count |-> 1]>>) }

\* how the exchange of lines 160-190 can end: a statement of the try block
\* raises (send_message on a network or quota error, response.text on a
\* response without text), or a response arrives
ChatOutcomes ==
    { [kind |-> "error", response |-> <<>>] }
    \cup { [kind |-> "ok", response |-> <<r>>] : r \in Responses }

\* the outcome drawn when no exchange takes place
NoExchange == [kind |-> "error", response |-> <<>>]

----------------------------------------------------------------------------
(* st.session_state: a mapping from the keys that are present *)

EmptyState == [k \in {} |-> TRUE]

Has(ss, k) == k \in DOMAIN ss

Get(ss, k) == IF Has(ss, k) THEN ss[k] ELSE None

Put(ss, k, v) == [y \in DOMAIN ss \cup {k} |-> IF y = k THEN v ELSE ss[y]]

\* the message list, empty when the key is absent
Messages(ss) == IF Has(ss, "messages") THEN ss["messages"] ELSE <<>>

IsPrefix(s, t) == Len(s) <= Len(t) /\ SubSeq(t, 1, Len(s)) = s

----------------------------------------------------------------------------
(* Section 2: API setup *)

\* line 41: os.getenv(...) or st.session_state.get("api_key")
ResolveApiKey(envv, ss) == IF Truthy(envv) THEN envv ELSE Get(ss, "api_key")

----------------------------------------------------------------------------
(* Section 3: combining the uploads, the content hash *)

\* the loop of lines 76-81 putting each file in front of what was combined
RECURSIVE CombineFromFront(_, _)
CombineFromFront(acc, files) ==
    IF files = <<>> THEN acc
    ELSE CombineFromFront(<<Pre, Head(files).name, Post>> \o Head(files).content \o acc,
                          Tail(files))

\* lines 74-83: for each file, the header and then the content
RECURSIVE CombineFrom(_, _)
CombineFrom(acc, files) ==
    IF files = <<>> THEN acc
    ELSE CombineFrom(acc \o <<Pre, Head(files).name, Post>> \o Head(files).content,
                     Tail(files))

combined_content(files) == CombineFrom(<<>>, files)

\* the value of a token in the hash
TokenCode(tok) ==
    CASE tok = Pre -> 1
      [] tok = Post -> 2
      [] tok = "a.txt" -> 3
      [] tok = "b.txt" -> 4
      [] tok = "x" -> 5
      [] tok = "y" -> 6
      [] OTHER -> 0

\* line 86: hash(TRANSCRIPT), a seeded hash of bounded width
RECURSIVE HashFrom(_, _, _)
HashFrom(h, seed, text) ==
    IF text = <<>> THEN h
    ELSE HashFrom((h * seed + TokenCode(Head(text))) % HashMod, seed, Tail(text))

StrHash(seed, text) == HashFrom(Len(text) % HashMod, seed, text)

----------------------------------------------------------------------------
(* Section 2, the gate: lines 43-55 *)

\* the gate without the st.stop() of line 55
ApiGateNoStop(api_key, keyInput) ==
    IF Truthy(api_key) THEN "pass"
    ELSE IF keyInput # "" THEN "rerun"
    ELSE "pass"

\* "pass" when a credential is there; otherwise the key field is shown and
\* the run ends: with st.rerun() after storing what was typed, or st.stop()
ApiGate(api_key, keyInput) ==
    IF Truthy(api_key) THEN "pass"
    ELSE IF keyInput # "" THEN "rerun"
    ELSE "auth"

(* Section 3, the gate: lines 69-71 *)

\* the gate without the st.stop() of line 71
UploadGateNoStop(uploads) == "pass"

UploadGate(uploads) == IF uploads = <<>> THEN "welcome" ELSE "pass"

(* Manage History Reset on Content Change: lines 86-89 *)

\* line 87 without its second disjunct
NeedsResetFirstOnly(ss, h) == ~Has(ss, "content_hash")

\* line 87
NeedsReset(ss, h) == ~Has(ss, "content_hash") \/ ss["content_hash"] # h

\* line 89 without line 88: the fingerprint is recorded, the history stays
ResetSessionKeep(ss, h) == Put(ss, "content_hash", h)

\* line 88 without line 89: the history is cleared, no fingerprint recorded
ResetSessionNoRecord(ss, h) == Put(ss, "messages", <<>>)

\* lines 88-89
ResetSession(ss, h) == Put(Put(ss, "messages", <<>>), "content_hash", h)

ManageHistoryReset(ss, h) == IF NeedsReset(ss, h) THEN ResetSession(ss, h) ELSE ss

----------------------------------------------------------------------------
(* Section 4: context caching, lines 92-120 *)

\* A cached context is known by the text it was created from (line 111).
\* The result of get_cached_content: how it ended, the store afterwards, the
\* context returned and the number of remote create calls made.
Got(result, store, cache, calls) ==
    [result |-> result, store |-> store, cache |-> cache, calls |-> calls]

\* get_cached_content without the @st.cache_resource decorator
get_cached_content_undecorated(store, text, remoteOk) ==
    IF remoteOk THEN Got("ok", store \cup {text}, <<text>>, 1)
    ELSE Got("error", store, <<>>, 1)

\* a store that also keeps the calls that raised
get_cached_content_keeps_error(store, text, remoteOk) ==
    IF text \in store THEN Got("hit", store, <<text>>, 0)
    ELSE IF remoteOk THEN Got("ok", store \cup {text}, <<text>>, 1)
    ELSE Got("error", store \cup {text}, <<>>, 1)

\* a body that tries the remote call a second time when it raised
get_cached_content_retry(store, text, remoteOk) ==
    IF text \in store THEN Got("hit", store, <<text>>, 0)
    ELSE IF remoteOk THEN Got("ok", store \cup {text}, <<text>>, 1)
    ELSE Got("error", store, <<>>, 2)

\* a store with one entry whatever the argument
get_cached_content_one_entry(store, text, remoteOk) ==
    IF store # {} THEN Got("hit", store, <<CHOOSE t \in store : TRUE>>, 0)
    ELSE IF remoteOk THEN Got("ok", store \cup {text}, <<text>>, 1)
    ELSE Got("error", store, <<>>, 1)

\* @st.cache_resource around get_cached_content: the entry stored for the
\* argument is returned without running the body; otherwise the body issues
\* the remote call once and its result is stored unless it raised
get_cached_content(store, text, remoteOk) ==
    IF text \in store THEN Got("hit", store, <<text>>, 0)
    ELSE IF remoteOk THEN Got("ok", store \cup {text}, <<text>>, 1)
    ELSE Got("error", store, <<>>, 1)

\* the except branch without the st.stop() of line 120
CacheGateNoStop(result) == "pass"

\* lines 118-120: the except branch ends the run
CacheGate(result) == IF result = "error" THEN "cache_error" ELSE "pass"

----------------------------------------------------------------------------
(* Section 5: lines 123-124 *)
InitMessages(ss) == IF ~Has(ss, "messages") THEN Put(ss, "messages", <<>>) ELSE ss

----------------------------------------------------------------------------
(* Section 8: chat logic, lines 144-193 *)

\* line 151 with the role of line 181
UserMessageAsAssistant(prompt) == [role |-> "assistant", content |-> prompt]

\* line 151
UserMessage(prompt) == [role |-> "user", content |-> prompt]

\* line 151 with insert(0, ...) in place of append
AppendUserFront(messages, prompt) == <<UserMessage(prompt)>> \o messages

AppendUser(messages, prompt) == Append(messages, UserMessage(prompt))

\* lines 154-157
google_history(messages) ==
    [i \in 1..Len(messages) |->
        [role |-> IF messages[i].role = "user" THEN "user" ELSE "model",
         parts |-> <<messages[i].content>>]]

\* line 165 without the slice
ReplayWhole(gh) == gh

\* line 165: google_history[:-1]
ReplayHistory(gh) == SubSeq(gh, 1, Len(gh) - 1)

\* line 188 with the total count as the default
CachedTokensNoDefault(u) ==
    IF "cached_content_token_count" \in DOMAIN u
    THEN u.cached_content_token_count ELSE u.total_token_count

\* line 188: getattr(u, "cached_content_token_count", 0)
CachedTokens(u) ==
    IF "cached_content_token_count" \in DOMAIN u
    THEN u.cached_content_token_count ELSE 0

\* lines 181-189
msg_data(response) ==
    IF response.usage_metadata # <<>>
    THEN LET u == response.usage_metadata[1] IN
         [role |-> "assistant", content |-> response.text,
          usage |-> [prompt_tokens |-> u.prompt_token_count,
                     candidates_tokens |-> u.candidates_token_count,
                     total_tokens |-> u.total_token_count,
                     cached_tokens |-> CachedTokens(u)]]
    ELSE [role |-> "assistant", content |-> response.text]

\* an except branch that records the error as an assistant message
AfterExchangeErrorMessage(messages, outcome) ==
    IF outcome.kind = "ok"
    THEN Append(messages, msg_data(outcome.response[1]))
    ELSE Append(messages, [role |-> "assistant", content |-> "error"])

\* an except branch that takes the user message back
AfterExchangeRetract(messages, outcome) ==
    IF outcome.kind = "ok"
    THEN Append(messages, msg_data(outcome.response[1]))
    ELSE SubSeq(messages, 1, Len(messages) - 1)

\* lines 160-193: the history after the exchange; an exception anywhere in
\* the try block reaches the except branch before line 190
AfterExchange(messages, outcome) ==
    IF outcome.kind = "ok"
    THEN Append(messages, msg_data(outcome.response[1]))
    ELSE messages

\* the whole of section 8 for a submitted prompt: the model is made from the
\* cache of this run (line 162) and send_message is called once (line 169)
ChatLogic(ss, cache, prompt, outcome) ==
    LET appended == AppendUser(ss["messages"], prompt)
        gh == google_history(appended)
    IN [ss |-> Put(ss, "messages", AfterExchange(appended, outcome)),
        context |-> cache,
        replay |-> <<ReplayHistory(gh)>>,
        sent |-> <<prompt>>,
        sends |-> 1,
        chat |-> outcome.kind,
        response |-> outcome.response]

----------------------------------------------------------------------------
(* One run of the script *)

\* the trace of a run that did nothing yet
NoTrace ==
    [stop |-> "init",
     keyInput |-> "", uploads |-> <<>>, prompt |-> None,
     api_key |-> None, transcript |-> <<>>, hash |-> <<>>, reset |-> FALSE,
     dropped |-> 0,
     create |-> "none", createCalls |-> 0, retried |-> FALSE,
     context |-> <<>>,
     replay |-> <<>>, sent |-> <<>>, sends |-> 0, chat |-> "none",
     response |-> <<>>]

\* the script from its first line to the st.stop() or the last line it reaches
RunScript(ss, store, envv, seed, keyInput, uploads, prompt, remoteOk, outcome) ==
    LET api_key == ResolveApiKey(envv, ss)
        gate == ApiGate(api_key, keyInput)
        t0 == [NoTrace EXCEPT !.keyInput = keyInput, !.uploads = uploads,
                              !.prompt = prompt]
    IN
    IF gate = "auth"
    THEN [ss |-> ss, store |-> store, widgets |-> {"key"},
          trace |-> [t0 EXCEPT !.stop = "auth"]]
    ELSE IF gate = "rerun"
    THEN [ss |-> Put(ss, "api_key", keyInput), store |-> store,
          widgets |-> {"key"}, trace |-> [t0 EXCEPT !.stop = "rerun"]]
    ELSE
    LET t1 == [t0 EXCEPT !.api_key = api_key] IN
    IF UploadGate(uploads) = "welcome"
    THEN [ss |-> ss, store |-> store, widgets |-> {"uploader"},
          trace |-> [t1 EXCEPT !.stop = "welcome"]]
    ELSE
    LET TRANSCRIPT == combined_content(uploads)
        current_content_hash == StrHash(seed, TRANSCRIPT)
        ss1 == ManageHistoryReset(ss, current_content_hash)
        got == get_cached_content(store, TRANSCRIPT, remoteOk)
        t2 == [t1 EXCEPT !.transcript = <<TRANSCRIPT>>,
                         !.hash = <<current_content_hash>>,
                         !.reset = NeedsReset(ss, current_content_hash),
                         !.dropped = Len(Messages(ss)) - Len(Messages(ss1)),
                         !.create = got.result,
                         !.createCalls = got.calls]
    IN
    IF CacheGate(got.result) = "cache_error"
    THEN [ss |-> ss1, store |-> got.store, widgets |-> {"uploader"},
          trace |-> [t2 EXCEPT !.stop = "cache_error"]]
    ELSE
    LET ss2 == InitMessages(ss1) IN
    IF prompt = None
    THEN [ss |-> ss2, store |-> got.store, widgets |-> {"uploader", "chat"},
          trace |-> [t2 EXCEPT !.stop = "end"]]
    ELSE
    LET turn == ChatLogic(ss2, got.cache, prompt, outcome) IN
    [ss |-> turn.ss, store |-> got.store, widgets |-> {"uploader", "chat"},
     trace |-> [t2 EXCEPT !.stop = "end", !.context = turn.context,
                          !.replay = turn.replay,
                          !.sent = turn.sent, !.sends = turn.sends,
                          !.chat = turn.chat,
                          !.response = turn.response]]

----------------------------------------------------------------------------
(* The state machine *)

NoTurns == [started |-> 0, succeeded |-> 0]

\* the origins after a run: those of the messages the reset check kept, and
\* the run's combined text for each message the run appended
OriginsAfter(old, run) ==
    LET kept == SubSeq(old, 1, Len(old) - run.trace.dropped)
        added == Len(Messages(run.ss)) - Len(kept)
    IN kept \o [i \in 1..added |-> run.trace.transcript[1]]

\* the turn counts after a run: back to zero at a reset, then one turn
\* started for a prompt that reached section 8, succeeded if it got its answer
TurnsAfter(old, run) ==
    LET from == IF run.trace.reset THEN NoTurns ELSE old
        turn == run.trace.sent # <<>>
    IN [started |-> from.started + (IF turn THEN 1 ELSE 0),
        succeeded |-> from.succeeded
                        + (IF turn /\ run.trace.chat = "ok" THEN 1 ELSE 0)]

\* the run reached cache creation with the text for which the cycle before
\* stopped at line 120
Retried(before, trace) ==
    before.create = "error" /\ trace.transcript = before.transcript

Init ==
    /\ env \in EnvValues
    /\ hashSeed \in HashSeeds
    /\ memo = {}
    /\ issued = {}
    /\ session_state = EmptyState
    /\ widgets = {}
    /\ lastUploads = <<>>
    /\ origins = <<>>
    /\ turns = NoTurns
    /\ cycle = NoTrace

\* a value can only come from a widget the page shows
KeyInputsNow == IF "key" \in widgets THEN KeyInputs ELSE {""}
UploadsNow == IF "uploader" \in widgets THEN UploadSets ELSE {<<>>}
PromptsNow == IF "chat" \in widgets THEN Prompts \cup {None} ELSE {None}

\* the remote services answer only when they are called
CreateOutcomes(uploads) ==
    IF uploads = <<>> \/ combined_content(uploads) \in memo
    THEN {TRUE} ELSE BOOLEAN
ExchangeOutcomes(prompt) == IF prompt = None THEN {NoExchange} ELSE ChatOutcomes

\* one user interaction: the framework runs the script once
Cycle ==
    \E keyInput \in KeyInputsNow, uploads \in UploadsNow, prompt \in PromptsNow :
    \E remoteOk \in CreateOutcomes(uploads), outcome \in ExchangeOutcomes(prompt) :
    \E run \in {RunScript(session_state, memo, env, hashSeed,
                          keyInput, uploads, prompt, remoteOk, outcome)} :
           /\ Len(Messages(run.ss)) <= MaxHistory
           /\ session_state' = run.ss
           /\ memo' = run.store
           /\ issued' = IF run.trace.create \in {"ok", "error"}
                        THEN issued \cup {run.trace.transcript[1]} ELSE issued
           /\ widgets' = run.widgets
           /\ lastUploads' = IF run.trace.hash # <<>> THEN uploads ELSE lastUploads
           /\ origins' = OriginsAfter(origins, run)
           /\ turns' = TurnsAfter(turns, run)
           /\ cycle' = [run.trace EXCEPT !.retried = Retried(cycle, run.trace)]
           /\ UNCHANGED <<env, hashSeed>>

\* the browser connects anew (page reload): a fresh st.session_state, while
\* the process, its environment and its cache_resource store live on
NewSession ==
    /\ cycle.stop # "init"
    /\ session_state' = EmptyState
    /\ widgets' = {}
    /\ lastUploads' = <<>>
    /\ origins' = <<>>
    /\ turns' = NoTurns
    /\ cycle' = NoTrace
    /\ UNCHANGED <<env, hashSeed, memo, issued>>

Next == Cycle \/ NewSession

Spec == Init /\ [][Next]_vars

----------------------------------------------------------------------------
(* Properties.  A step of Cycle leaves in cycle' what the run did, so a    *)
(* statement about "a cycle" is a statement about one step: the unprimed   *)
(* variables are the state before the run, the primed ones the state       *)
(* after it.  After NewSession cycle'.stop is "init".                      *)

\* the history before and after the step
pre == Messages(session_state)
post == Messages(session_state')

\* the history when section 8 starts: what the reset check left
base == IF cycle'.reset THEN <<>> ELSE pre

\* the step ran section 8 for a submitted prompt
IsTurn == cycle'.stop = "end" /\ cycle'.prompt # None

\* the step issued a remote call
CreateCalled == cycle'.create \in {"ok", "error"}
ChatCalled == cycle'.chat # "none"

\* C1: a turn whose chat call succeeds ends with the history of the start of
\* the turn plus the user message with the prompt and the assistant message
\* with the response text; a turn whose exchange raises ends with the history
\* of the start of the turn plus the user message only.
C1_TurnGrowsHistory ==
    [][IsTurn =>
        /\ IsPrefix(base, post)
        /\ Len(post) > Len(base)
        /\ post[Len(base) + 1] = [role |-> "user", content |-> cycle'.prompt]
        /\ IF cycle'.chat = "ok"
           THEN /\ Len(post) = Len(base) + 2
                /\ post[Len(post)].role = "assistant"
                /\ post[Len(post)].content = cycle'.response[1].text
           ELSE Len(post) = Len(base) + 1]_vars

\* a successful turn that followed a failed one
C1_Witness ==
    /\ cycle.chat = "ok"
    /\ Len(Messages(session_state)) = 3
    /\ Messages(session_state)[2].role = "user"

\* C2: the replay history given to start_chat is the history as it was before
\* the prompt was appended, entry by entry, "user" kept and every other role
\* turned into "model", each entry holding the role and the text only.
C2_ReplayIsPriorHistory ==
    [][IsTurn =>
        /\ cycle'.replay # <<>>
        /\ LET r == cycle'.replay[1] IN
           /\ Len(r) = Len(base)
           /\ \A i \in 1..Len(r) :
                /\ DOMAIN r[i] = {"role", "parts"}
                /\ r[i].role = (IF base[i].role = "user" THEN "user" ELSE "model")
                /\ r[i].parts = <<base[i].content>>]_vars

\* a replay holding an earlier exchange whose answer carried usage counts
C2_Witness ==
    /\ cycle.replay # <<>>
    /\ Len(cycle.replay[1]) = 2
    /\ cycle.replay[1][2].role = "model"
    /\ "usage" \in DOMAIN Messages(session_state)[2]

C4_DifferentUploadsReset ==
    [][(cycle'.hash # <<>> /\ lastUploads # <<>> /\ cycle'.uploads # lastUploads) =>
        /\ cycle'.hash[1] # session_state["content_hash"]
        /\ cycle'.reset
        /\ base = <<>>]_vars

\* C5: a cycle that reaches the fingerprint check resets (empties the history
\* and records the fingerprint) exactly when no fingerprint is recorded or
\* the computed one differs; the same uploads as in the session's previous
\* cycle with uploads give the same fingerprint and keep the history.
C5_ResetExactlyOnChange ==
    [][cycle'.hash # <<>> =>
        LET h == cycle'.hash[1] IN
        /\ cycle'.reset <=>
              (~Has(session_state, "content_hash") \/ session_state["content_hash"] # h)
        /\ session_state'["content_hash"] = h
        /\ cycle'.reset =>
              /\ Len(post) <= 2
              /\ cycle'.replay # <<>> => cycle'.replay[1] = <<>>
              /\ cycle'.replay = <<>> => post = <<>>
        /\ ~cycle'.reset => IsPrefix(pre, post)
        /\ (lastUploads # <<>> /\ cycle'.uploads = lastUploads) =>
              /\ ~cycle'.reset
              /\ h = session_state["content_hash"]
              /\ IsPrefix(pre, post)]_vars

\* the same uploads again: no reset, and a conversation that is still there
C5_Witness ==
    /\ cycle.hash # <<>>
    /\ ~cycle.reset
    /\ cycle.prompt = None
    /\ Len(Messages(session_state)) > 0

\* C6: a cycle in which cache creation raises stops there: no message is
\* appended and no chat call is issued, whatever prompt was pending.
C6_CacheErrorStopsCycle ==
    [][cycle'.create = "error" =>
        /\ cycle'.stop = "cache_error"
        /\ cycle'.chat = "none"
        /\ cycle'.sent = <<>>
        /\ cycle'.replay = <<>>
        /\ post = base]_vars

\* cache creation raised while a prompt was pending
C6_Witness ==
    /\ cycle.create = "error"
    /\ cycle.prompt # None

\* C7: the turn after a failed turn, on the same transcript, appends and
\* sends its prompt, and its replay ends with the failed turn's user message;
\* that message is still in the history, unanswered.
C7_FailedTurnKept ==
    [][(cycle.chat = "error" /\ IsTurn /\ cycle'.transcript = cycle.transcript) =>
        /\ pre # <<>>
        /\ pre[Len(pre)] = [role |-> "user", content |-> cycle.prompt]
        /\ cycle'.sent = <<cycle'.prompt>>
        /\ ChatCalled
        /\ Len(cycle'.replay[1]) = Len(pre)
        /\ cycle'.replay[1][Len(pre)] = [role |-> "user", parts |-> <<cycle.prompt>>]
        /\ IsPrefix(pre \o <<[role |-> "user", content |-> cycle'.prompt]>>, post)]_vars

\* a turn that succeeded with an unanswered user message in its replay
C7_Witness ==
    /\ cycle.chat = "ok"
    /\ cycle.replay # <<>>
    /\ Len(cycle.replay[1]) >= 1
    /\ cycle.replay[1][Len(cycle.replay[1])].role = "user"

\* C8: with no credential in the environment or the session and nothing
\* typed, the cycle stops at the key prompt: no fingerprint, no change of
\* the session state, no remote call.  Every remote call is made with a
\* non-empty credential, the environment's when it has one.
C8_CredentialGate ==
    [][cycle'.stop # "init" =>
        /\ (~Truthy(env) /\ ~Truthy(Get(session_state, "api_key"))
              /\ cycle'.keyInput = "") =>
              /\ cycle'.stop = "auth"
              /\ cycle'.transcript = <<>>
              /\ cycle'.hash = <<>>
              /\ session_state' = session_state
              /\ ~CreateCalled
              /\ ~ChatCalled
              /\ memo' = memo
        /\ (CreateCalled \/ ChatCalled) =>
              /\ Truthy(cycle'.api_key)
              /\ cycle'.api_key = IF Truthy(env) THEN env
                                  ELSE Get(session_state, "api_key")]_vars

\* a cycle stopped at the key prompt
C8_Witness == cycle.stop = "auth"

\* C9: a cycle that reaches the uploader with no file stops at the welcome
\* message: no combined text, no fingerprint, no change of the session
\* state, no cache request, no prompt handled.
C9_UploadGate ==
    [][(cycle'.stop \notin {"init", "auth", "rerun"} /\ cycle'.uploads = <<>>) =>
        /\ cycle'.stop = "welcome"
        /\ cycle'.transcript = <<>>
        /\ cycle'.hash = <<>>
        /\ session_state' = session_state
        /\ cycle'.create = "none"
        /\ memo' = memo
        /\ issued' = issued
        /\ ~ChatCalled
        /\ cycle'.sent = <<>>]_vars

\* the files were removed while a prompt was pending and a history existed
C9_Witness ==
    /\ cycle.stop = "welcome"
    /\ cycle.prompt # None
    /\ Len(Messages(session_state)) > 0

\* C10: across a cycle the old history is a prefix of the new one, which has
\* at most two messages more, or the fingerprint changed and the history was
\* emptied before this cycle's messages were appended.
C10_AppendOnly ==
    [][cycle'.stop # "init" =>
        \/ /\ IsPrefix(pre, post)
           /\ Len(post) <= Len(pre) + 2
        \/ /\ cycle'.reset
           /\ \/ ~Has(session_state, "content_hash")
              \/ session_state["content_hash"] # session_state'["content_hash"]
           /\ Len(post) <= 2
           /\ cycle'.replay # <<>> => cycle'.replay[1] = <<>>
           /\ cycle'.replay = <<>> => post = <<>>]_vars

\* a conversation was cleared and a new exchange appended in one cycle
C10_Witness ==
    /\ cycle.dropped > 0
    /\ Len(Messages(session_state)) = 2

\* the texts of the files in upload order, each after the header naming it
RECURSIVE Delimited(_)
Delimited(files) ==
    IF files = <<>> THEN <<>>
    ELSE LET n == Len(files) IN
         Delimited(SubSeq(files, 1, n - 1))
            \o <<Pre, files[n].name, Post>> \o files[n].content

\* C11: the combined text of a cycle is the texts of its uploads in upload
\* order, each one after the "--- SOURCE: <filename> ---" header of its file;
\* the same ordered uploads as in the cycle before give the same text.
C11_CombinedText ==
    [][cycle'.transcript # <<>> =>
        /\ cycle'.transcript[1] = Delimited(cycle'.uploads)
        /\ (cycle.transcript # <<>> /\ cycle'.uploads = cycle.uploads) =>
              cycle'.transcript = cycle.transcript]_vars

\* two files were combined
C11_Witness ==
    /\ cycle.transcript # <<>>
    /\ Len(cycle.uploads) = 2
    /\ cycle.uploads[1].name = "b.txt"

\* C12: the user message of a turn is appended without a usage field; the
\* assistant message of a successful turn carries the response's counts, the
\* cached count being 0 when the response has none, and carries no usage
\* field when the response has no usage metadata.
C12_UsageAccounting ==
    [][IsTurn =>
        /\ Len(post) > Len(base)
        /\ DOMAIN post[Len(base) + 1] = {"role", "content"}
        /\ cycle'.chat = "ok" =>
              LET m == post[Len(post)]
                  um == cycle'.response[1].usage_metadata
              IN IF um = <<>>
                 THEN DOMAIN m = {"role", "content"}
                 ELSE /\ DOMAIN m = {"role", "content", "usage"}
                      /\ DOMAIN m.usage = {"prompt_tokens", "candidates_tokens",
                                           "total_tokens", "cached_tokens"}
                      /\ m.usage.prompt_tokens = um[1].prompt_token_count
                      /\ m.usage.candidates_tokens = um[1].candidates_token_count
                      /\ m.usage.total_tokens = um[1].total_token_count
                      /\ m.usage.cached_tokens =
                            (IF "cached_content_token_count" \in DOMAIN um[1]
                             THEN um[1].cached_content_token_count ELSE 0)]_vars

\* an answer with counts but without a cached count was recorded
C12_Witness ==
    /\ cycle.chat = "ok"
    /\ cycle.response # <<>>
    /\ cycle.response[1].usage_metadata # <<>>
    /\ "cached_content_token_count" \notin DOMAIN cycle.response[1].usage_metadata[1]
    /\ Messages(session_state)[Len(Messages(session_state))].usage.cached_tokens = 0

C14_TurnUsesOwnContext ==
    [][IsTurn => cycle'.context # <<>> /\ cycle'.context = cycle'.transcript]_vars

\* a turn took its context from a store holding the contexts of two texts
C14_Witness ==
    /\ cycle.sent # <<>>
    /\ cycle.create = "hit"
    /\ cycle.context = cycle.transcript
    /\ Cardinality(memo) >= 2

\* C15: a cycle issues at most one remote create call and at most one chat
\* send, whether they fail or not, and the cycle that the script itself
\* starts (st.rerun) follows a cycle that issued no remote call.
C15_NoAutomaticRetry ==
    [][/\ cycle'.createCalls = (IF CreateCalled THEN 1 ELSE 0)
       /\ cycle'.sends = (IF ChatCalled THEN 1 ELSE 0)
       /\ cycle'.stop = "rerun" => ~CreateCalled /\ ~ChatCalled]_vars

\* the chat call of a cycle raised after the cycle had created its context
C15_Witness ==
    /\ cycle.chat = "error"
    /\ cycle.sends = 1
    /\ cycle.createCalls = 1

C17_ResetBeforeCreate ==
    [][/\ (cycle'.reset /\ cycle'.create = "error") =>
             /\ post = <<>>
             /\ Has(session_state', "content_hash")
             /\ <<session_state'["content_hash"]>> = cycle'.hash
       /\ (cycle'.hash # <<>> /\ Has(session_state, "content_hash")
              /\ <<session_state["content_hash"]>> = cycle'.hash) =>
             ~cycle'.reset
       /\ cycle'.retried => ~cycle'.reset]_vars

\* a conversation was cleared in a cycle whose cache creation raised
C17_Witness ==
    /\ cycle.create = "error"
    /\ cycle.dropped > 0
    /\ Messages(session_state) = <<>>
    /\ Has(session_state, "content_hash")

\* C18: every assistant message of the history comes right after a user
\* message, and the length of the history is the number of turns started
\* plus the number of turns that succeeded since the last reset.
C18_HistoryShape ==
    LET m == Messages(session_state) IN
    /\ \A i \in 1..Len(m) :
          m[i].role = "assistant" => i > 1 /\ m[i - 1].role = "user"
    /\ Len(m) = turns.started + turns.succeeded

\* a failed turn and a successful turn make a history of three messages
C18_Witness ==
    /\ Len(Messages(session_state)) = 3
    /\ turns.started = 2
    /\ turns.succeeded = 1

====
